---- MODULE Spec2Model ----
(***************************************************************************)
(* zk-AluVM GFA256 ISA extension: the field register file (GfaCore), its   *)
(* microcode, the FieldInstr executor and the two-byte bytecode codec.     *)
(*                                                                         *)
(* A 256-bit unsigned integer (amplify u256) is a sequence of 32 bytes,    *)
(* least significant first (its to_le_bytes form); a u512 is 64 bytes.     *)
(* All arithmetic is done on these byte strings at the width the code      *)
(* uses, so wrap-around and narrowing happen exactly where they happen in  *)
(* the code.                                                               *)
(***************************************************************************)
EXTENDS Integers, Sequences, FiniteSets, TLC

(***************************************************************************)
(* amplify::num big unsigned integers                                      *)
(***************************************************************************)

\* number of bytes of a u256
U256_BYTES == 32

\* number of bytes of a u512
U512_BYTES == 64

Byte == 0..255

\* n zero bytes: the integer 0 at a width of n bytes
Zeros(n) == [i \in 1..n |-> 0]

\* the integer x (0 <= x < 2^31) widened with zeros to n bytes
FromNat(x, n) == [i \in 1..n |-> IF i > 4 THEN 0 ELSE (x \div 256^(i - 1)) % 256]

\* u256::ZERO, u256::ONE, u256::MAX
U256_ZERO == Zeros(U256_BYTES)
U256_ONE == FromNat(1, U256_BYTES)
U256_MAX == [i \in 1..U256_BYTES |-> 255]

\* zero-extension (u512::from(u256)) and truncation to the low n bytes
Widen(a, n) == a \o Zeros(n - Len(a))
Low(a, n) == SubSeq(a, 1, n)

\* The operators below walk the bytes lo..hi of their operands by halves, so
\* that the depth of the evaluation grows with the logarithm of the width.

\* the highest index in lo..hi at which a and b differ (0 when there is none)
RECURSIVE TopDiff(_, _, _, _)
TopDiff(a, b, lo, hi) ==
    IF lo > hi THEN 0
    ELSE IF lo = hi THEN (IF a[lo] # b[lo] THEN lo ELSE 0)
    ELSE LET mid == (lo + hi) \div 2
             t   == TopDiff(a, b, mid + 1, hi)
         IN  IF t # 0 THEN t ELSE TopDiff(a, b, lo, mid)

\* a < b for two integers of the same width
Lt(a, b) ==
    LET t == TopDiff(a, b, 1, Len(a))
    IN  t # 0 /\ a[t] < b[t]

Ge(a, b) == ~Lt(a, b)

\* index of the most significant nonzero byte of a (0 when a = 0)
TopIndex(a) == TopDiff(a, Zeros(Len(a)), 1, Len(a))

\* bytes lo..hi of a + b + carry: <<the bytes, the carry out>>
RECURSIVE AddRange(_, _, _, _, _)
AddRange(a, b, lo, hi, carry) ==
    IF lo = hi
    THEN LET s == a[lo] + b[lo] + carry
         IN  <<<<s % 256>>, s \div 256>>
    ELSE LET mid == (lo + hi) \div 2
             l   == AddRange(a, b, lo, mid, carry)
             h   == AddRange(a, b, mid + 1, hi, l[2])
         IN  <<l[1] \o h[1], h[2]>>

\* overflowing_add: <<a + b mod 2^(8n), carry out>>
overflowing_add(a, b) ==
    LET s == AddRange(a, b, 1, Len(a), 0)
    IN  <<s[1], s[2] = 1>>

\* bytes lo..hi of a - b - borrow: <<the bytes, the borrow out>>
RECURSIVE SubRange(_, _, _, _, _)
SubRange(a, b, lo, hi, borrow) ==
    IF lo = hi
    THEN LET d == a[lo] - b[lo] - borrow
         IN  IF d < 0 THEN <<<<d + 256>>, 1>> ELSE <<<<d>>, 0>>
    ELSE LET mid == (lo + hi) \div 2
             l   == SubRange(a, b, lo, mid, borrow)
             h   == SubRange(a, b, mid + 1, hi, l[2])
         IN  <<l[1] \o h[1], h[2]>>

\* overflowing_sub: <<a - b mod 2^(8n), borrow out>>
overflowing_sub(a, b) ==
    LET d == SubRange(a, b, 1, Len(a), 0)
    IN  <<d[1], d[2] = 1>>

\* wrapping addition and subtraction at the width of a
wrapping_add(a, b) == overflowing_add(a, b)[1]
wrapping_sub(a, b) == overflowing_sub(a, b)[1]

\* a >> bits at the width of a (the Shr of u256)
Shr(a, bits) ==
    LET w  == Len(a)
        by == bits \div 8
        bi == bits % 8
        at(j) == IF j <= w THEN a[j] ELSE 0
    IN  [i \in 1..w |->
            (at(i + by) \div 2^bi) + ((at(i + by + 1) * 2^(8 - bi)) % 256)]

\* the sum of a[i] * b[k + 1 - i] for i in lo..hi: column k of the product
RECURSIVE ColSum(_, _, _, _, _)
ColSum(a, b, k, lo, hi) ==
    IF lo > hi THEN 0
    ELSE IF lo = hi THEN a[lo] * b[k + 1 - lo]
    ELSE LET mid == (lo + hi) \div 2
         IN  ColSum(a, b, k, lo, mid) + ColSum(a, b, k, mid + 1, hi)

\* bytes lo..hi of a * b, given the carry into column lo: <<the bytes, the
\* carry out>>; ta and tb are the leading nonzero bytes of a and b, above
\* which nothing is added to a column
RECURSIVE MulRange(_, _, _, _, _, _, _)
MulRange(a, b, ta, tb, lo, hi, carry) ==
    IF lo = hi
    THEN LET s == carry + ColSum(a, b, lo, IF lo > tb THEN lo + 1 - tb ELSE 1,
                                 IF lo > ta THEN ta ELSE lo)
         IN  <<<<s % 256>>, s \div 256>>
    ELSE LET mid == (lo + hi) \div 2
             l   == MulRange(a, b, ta, tb, lo, mid, carry)
             h   == MulRange(a, b, ta, tb, mid + 1, hi, l[2])
         IN  <<l[1] \o h[1], h[2]>>

\* wrapping multiplication at the width of a (the Mul of u256 and of u512)
wrapping_mul(a, b) == MulRange(a, b, TopIndex(a), TopIndex(b), 1, Len(a), 0)[1]

\* the full product a * b, Len(a) + Len(b) bytes wide
MulWide(a, b) ==
    wrapping_mul(Widen(a, Len(a) + Len(b)), Widen(b, Len(a) + Len(b)))

\* bytes lo..hi of r - q * m - borrow for a single-byte q: <<the bytes, the
\* borrow out>>
RECURSIVE MulSubRange(_, _, _, _, _, _)
MulSubRange(r, m, q, lo, hi, borrow) ==
    IF lo = hi
    THEN LET p == q * m[lo] + borrow
             d == r[lo] - (p % 256)
         IN  IF d < 0 THEN <<<<d + 256>>, (p \div 256) + 1>>
             ELSE <<<<d>>, p \div 256>>
    ELSE LET mid == (lo + hi) \div 2
             l   == MulSubRange(r, m, q, lo, mid, borrow)
             h   == MulSubRange(r, m, q, mid + 1, hi, l[2])
         IN  <<l[1] \o h[1], h[2]>>

\* r brought below m by subtracting m
RECURSIVE Correct(_, _)
Correct(r, m) == IF Lt(r, m) THEN r ELSE Correct(wrapping_sub(r, m), m)

\* one step of the long division: the remainder r < m takes the next byte d of
\* the dividend and is brought below m again; the quotient byte is estimated
\* from below out of the leading bytes and then corrected.  r and m are n + 1
\* bytes wide, n the number of bytes of the divisor, mt its two leading bytes.
RemStep(r, d, m, n, mt) ==
    LET r1 == <<d>> \o SubSeq(r, 1, n)
        rt == r1[n + 1] * 65536 + r1[n] * 256 + (IF n >= 2 THEN r1[n - 1] ELSE 0)
        q  == rt \div (mt + 1)
    IN  Correct(IF q = 0 THEN r1 ELSE MulSubRange(r1, m, q, 1, n + 1, 0)[1], m)

\* the remainder r after the bytes hi down to lo of the dividend a
\* (the test on Len(r) has the remainder evaluated before the next bytes)
RECURSIVE RemRange(_, _, _, _, _, _, _)
RemRange(a, m, n, mt, hi, lo, r) ==
    IF hi < lo \/ Len(r) = 0 THEN r
    ELSE IF hi = lo THEN RemStep(r, a[hi], m, n, mt)
    ELSE LET mid == (lo + hi) \div 2
         IN  RemRange(a, m, n, mt, mid, lo, RemRange(a, m, n, mt, hi, mid + 1, r))

\* a % m for m # 0 (the Rem of u256 and of u512): a itself when a < m, else
\* long division a byte at a time, the remainder starting as the leading
\* bytes of a, one fewer than m has
Rem(a, m) ==
    IF Lt(a, m) THEN a ELSE
    LET n  == TopIndex(m)
        ta == TopIndex(a)
        mn == Low(m, n) \o <<0>>
        mt == m[n] * 256 + (IF n >= 2 THEN m[n - 1] ELSE 0)
        r0 == SubSeq(a, ta - n + 2, ta) \o <<0, 0>>
        r  == RemRange(a, mn, n, mt, ta - n + 1, 1, r0)
    IN  Widen(Low(r, n), Len(a))

(***************************************************************************)
(* Option<T>, Status                                                       *)
(***************************************************************************)

None == <<>>
Some(v) == <<v>>
is_some(o) == o # None
unwrap(o) == o[1]

Status == {"Ok", "Fail"}

(***************************************************************************)
(* core/core.rs: the field register file                                   *)
(***************************************************************************)

\* the sixteen registers E1..E8, EA..EH by their 4-bit codes
RegE == 0..15

\* u256::from_inner([l0, l1, l2, l3]): four 64-bit limbs, least significant
\* first, each given here by its eight bytes
from_inner(l0, l1, l2, l3) == l0 \o l1 \o l2 \o l3

FIELD_ORDER_25519 ==
    from_inner(<<236, 255, 255, 255, 255, 255, 255, 255>>,
               <<255, 255, 255, 255, 255, 255, 255, 255>>,
               <<255, 255, 255, 255, 255, 255, 255, 255>>,
               <<255, 255, 255, 255, 255, 255, 255, 143>>)

FIELD_ORDER_STARK ==
    from_inner(<<1, 0, 0, 0, 0, 0, 0, 0>>,
               <<0, 0, 0, 0, 0, 0, 0, 0>>,
               <<17, 0, 0, 0, 0, 0, 0, 0>>,
               <<0, 0, 0, 0, 0, 0, 0, 8>>)

FIELD_ORDER_SECP ==
    from_inner(<<46, 252, 255, 255, 254, 255, 255, 255>>,
               <<255, 255, 255, 255, 255, 255, 255, 255>>,
               <<255, 255, 255, 255, 255, 255, 255, 255>>,
               <<255, 255, 255, 255, 255, 255, 255, 255>>)

\* GfaConfig::default().field_order
GfaConfig_default == FIELD_ORDER_25519

\* GfaCore::with(config): FQ from the configuration, every slot empty.
\* panic records that an assertion of the core has aborted the executor.
with(field_order) ==
    [fq |-> field_order, e |-> [r \in RegE |-> None], panic |-> FALSE]

get(cx, reg) == cx.e[reg]

clr(cx, reg) == [cx EXCEPT !.e[reg] = None]

\* put that stores whatever it is given
put_unchecked(cx, reg, val) == [cx EXCEPT !.e[reg] = val]

\* put that keeps what an occupied slot holds
put_if_empty(cx, reg, val) ==
    IF ~is_some(val) THEN [cx EXCEPT !.e[reg] = None]
    ELSE IF ~Lt(unwrap(val), cx.fq) THEN [cx EXCEPT !.panic = TRUE]
    ELSE IF is_some(cx.e[reg]) THEN cx
    ELSE [cx EXCEPT !.e[reg] = val]

\* put that stores the value before it asserts it to be below FQ
put_then_assert(cx, reg, val) ==
    IF ~is_some(val) THEN [cx EXCEPT !.e[reg] = None]
    ELSE IF ~Lt(unwrap(val), cx.fq) THEN [cx EXCEPT !.e[reg] = val, !.panic = TRUE]
    ELSE [cx EXCEPT !.e[reg] = val]

\* put: None clears; Some(val) is asserted to be below FQ and stored
put(cx, reg, val) ==
    IF ~is_some(val) THEN [cx EXCEPT !.e[reg] = None]
    ELSE IF ~Lt(unwrap(val), cx.fq) THEN [cx EXCEPT !.panic = TRUE]
    ELSE [cx EXCEPT !.e[reg] = val]

\* CoreExt::set, the trait's provided method: put(reg, Some(val))
set(cx, reg, val) == put(cx, reg, Some(val))

\* reset that clears E1..E8 only
reset_low_half(cx) == [cx EXCEPT !.e = [r \in RegE |-> IF r < 8 THEN None ELSE @[r]]]

\* reset that rebuilds the register file for the default field order
reset_to_default(cx) == [with(FIELD_ORDER_25519) EXCEPT !.panic = cx.panic]

reset(cx) == [cx EXCEPT !.e = [r \in RegE |-> None]]

(***************************************************************************)
(* gfa/instr.rs: ConstVal, Bits and the field instructions                 *)
(***************************************************************************)

ConstVal == {"Val1", "ValU64Max", "ValU128Max", "ValFeMAX"}

\* ConstVal::to_u2: the enum's discriminant
ConstVal_to_u2(val) ==
    CASE val = "Val1" -> 0
      [] val = "ValU64Max" -> 1
      [] val = "ValU128Max" -> 2
      [] val = "ValFeMAX" -> 3

\* impl From<u2> for ConstVal
ConstVal_from(x) ==
    CASE x = ConstVal_to_u2("Val1") -> "Val1"
      [] x = ConstVal_to_u2("ValU64Max") -> "ValU64Max"
      [] x = ConstVal_to_u2("ValU128Max") -> "ValU128Max"
      [] x = ConstVal_to_u2("ValFeMAX") -> "ValFeMAX"

\* to_fe256 that takes Val1 for the zero element
to_fe256_zero(val) ==
    CASE val = "Val1" -> Some(FromNat(0, U256_BYTES))
      [] val = "ValU64Max" -> Some(Widen([i \in 1..8 |-> 255], U256_BYTES))
      [] val = "ValU128Max" -> Some(Widen([i \in 1..16 |-> 255], U256_BYTES))
      [] val = "ValFeMAX" -> None

\* ConstVal::to_fe256: None for ValFeMAX, else the constant widened to 256 bits
to_fe256(val) ==
    CASE val = "Val1" -> Some(FromNat(1, U256_BYTES))
      [] val = "ValU64Max" -> Some(Widen([i \in 1..8 |-> 255], U256_BYTES))
      [] val = "ValU128Max" -> Some(Widen([i \in 1..16 |-> 255], U256_BYTES))
      [] val = "ValFeMAX" -> None

Bits == {"Bits8", "Bits16", "Bits24", "Bits32", "Bits48", "Bits64", "Bits96", "Bits128"}

\* Bits::to_u3: the enum's discriminant, in declaration order
Bits_to_u3(bits) ==
    CASE bits = "Bits8" -> 0
      [] bits = "Bits16" -> 1
      [] bits = "Bits24" -> 2
      [] bits = "Bits32" -> 3
      [] bits = "Bits48" -> 4
      [] bits = "Bits64" -> 5
      [] bits = "Bits96" -> 6
      [] bits = "Bits128" -> 7

\* impl From<u3> for Bits
Bits_from(x) ==
    CASE x = Bits_to_u3("Bits8") -> "Bits8"
      [] x = Bits_to_u3("Bits16") -> "Bits16"
      [] x = Bits_to_u3("Bits24") -> "Bits24"
      [] x = Bits_to_u3("Bits32") -> "Bits32"
      [] x = Bits_to_u3("Bits48") -> "Bits48"
      [] x = Bits_to_u3("Bits64") -> "Bits64"
      [] x = Bits_to_u3("Bits96") -> "Bits96"
      [] x = Bits_to_u3("Bits128") -> "Bits96"

\* Bits::from_bit_len (panics on any other length)
from_bit_len(len) ==
    CASE len = 8 -> "Bits8"
      [] len = 16 -> "Bits16"
      [] len = 24 -> "Bits24"
      [] len = 32 -> "Bits32"
      [] len = 48 -> "Bits48"
      [] len = 64 -> "Bits64"
      [] len = 96 -> "Bits96"
      [] len = 128 -> "Bits128"

\* Bits::bit_len
bit_len(bits) ==
    CASE bits = "Bits8" -> 8
      [] bits = "Bits16" -> 16
      [] bits = "Bits24" -> 24
      [] bits = "Bits32" -> 32
      [] bits = "Bits48" -> 48
      [] bits = "Bits64" -> 64
      [] bits = "Bits96" -> 96
      [] bits = "Bits128" -> 128

\* the variants of FieldInstr
Test(src) == [op |-> "Test", src |-> src]
Clr(dst) == [op |-> "Clr", dst |-> dst]
PutD(dst, data) == [op |-> "PutD", dst |-> dst, data |-> data]
PutZ(dst) == [op |-> "PutZ", dst |-> dst]
PutV(dst, val) == [op |-> "PutV", dst |-> dst, val |-> val]
Fits(src, bits) == [op |-> "Fits", src |-> src, bits |-> bits]
Mov(dst, src) == [op |-> "Mov", dst |-> dst, src |-> src]
Eq(src1, src2) == [op |-> "Eq", src1 |-> src1, src2 |-> src2]
Neg(dst, src) == [op |-> "Neg", dst |-> dst, src |-> src]
Add(dst_src, src) == [op |-> "Add", dst_src |-> dst_src, src |-> src]
Mul(dst_src, src) == [op |-> "Mul", dst_src |-> dst_src, src |-> src]

(***************************************************************************)
(* core/microcode.rs: each operation gives the register file after it and  *)
(* what it returns                                                         *)
(***************************************************************************)

fq(cx) == cx.fq

\* debug_assert!(cond): aborts when the condition fails
debug_assert(cx, cond) == IF cond THEN cx ELSE [cx EXCEPT !.panic = TRUE]

\* test that answers the other way round
test_inverted(cx, src) == IF is_some(get(cx, src)) THEN "Fail" ELSE "Ok"

test(cx, src) == IF is_some(get(cx, src)) THEN "Ok" ELSE "Fail"

\* fits that looks one bit further up
fits_above(cx, src, bits) ==
    LET a == get(cx, src)
    IN  IF ~is_some(a) THEN [cx |-> cx, ret |-> None]
        ELSE [cx  |-> cx,
              ret |-> Some(Shr(unwrap(a), bit_len(bits) + 1) = U256_ZERO)]

\* fits: None for an empty slot, else Some(a >> bit_len == 0)
fits(cx, src, bits) ==
    LET a == get(cx, src)
    IN  IF ~is_some(a) THEN [cx |-> cx, ret |-> None]
        ELSE [cx  |-> debug_assert(cx, Lt(unwrap(a), fq(cx))),
              ret |-> Some(Shr(unwrap(a), bit_len(bits)) = U256_ZERO)]

\* mov that leaves dst alone when src is empty
mov_of_values(cx, dst, src) ==
    IF is_some(get(cx, src)) THEN set(cx, dst, unwrap(get(cx, src))) ELSE cx

\* mov that takes the value out of src
mov_taking(cx, dst, src) ==
    IF is_some(get(cx, src)) THEN clr(set(cx, dst, unwrap(get(cx, src))), src)
    ELSE clr(cx, dst)

mov(cx, dst, src) ==
    IF is_some(get(cx, src)) THEN set(cx, dst, unwrap(get(cx, src)))
    ELSE clr(cx, dst)

\* eqv that takes two empty slots for equal
eqv_of_slots(cx, src1, src2) ==
    IF get(cx, src1) = get(cx, src2) THEN "Ok" ELSE "Fail"

eqv(cx, src1, src2) ==
    LET a == get(cx, src1)
        b == get(cx, src2)
    IN  IF a = b /\ is_some(a) THEN "Ok" ELSE "Fail"

\* the sum of add_mod after its overflow branch: res += u256::MAX - order
add_overflow(sum, order) ==
    IF sum[2] THEN wrapping_add(sum[1], wrapping_sub(U256_MAX, order)) ELSE sum[1]

add_mod(cx, dst_src, src) ==
    LET order == fq(cx)
        oa    == get(cx, dst_src)
        ob    == get(cx, src)
        a     == unwrap(oa)
        b     == unwrap(ob)
        res   == add_overflow(overflowing_add(a, b), order)
    IN  IF ~is_some(oa) THEN [cx |-> cx, ret |-> "Fail"]
        ELSE IF ~is_some(ob) THEN [cx |-> cx, ret |-> "Fail"]
        ELSE IF ~(Lt(a, order) /\ Lt(b, order))
             THEN [cx |-> debug_assert(cx, FALSE), ret |-> "Ok"]
        ELSE [cx |-> set(cx, dst_src, Rem(res, order)), ret |-> "Ok"]

\* mul_mod_int that multiplies at 256 bits
mul_mod_int_narrow(order, a, b) ==
    LET c == wrapping_mul(a, b)
    IN  <<Rem(c, order), Ge(c, order)>>

\* mul_mod_int: the product at 512 bits, reduced, narrowed to the low 32 bytes
mul_mod_int(order, a, b) ==
    LET a512 == Widen(a, U512_BYTES)
        b512 == Widen(b, U512_BYTES)
        c    == wrapping_mul(a512, b512)
        o    == Widen(order, U512_BYTES)
    IN  <<Low(Rem(c, o), U256_BYTES), Ge(c, o)>>

mul_mod(cx, dst_src, src) ==
    LET order == fq(cx)
        oa    == get(cx, dst_src)
        ob    == get(cx, src)
        a     == unwrap(oa)
        b     == unwrap(ob)
        res   == mul_mod_int(order, a, b)[1]
    IN  IF ~is_some(oa) THEN [cx |-> cx, ret |-> "Fail"]
        ELSE IF ~is_some(ob) THEN [cx |-> cx, ret |-> "Fail"]
        ELSE IF ~(Lt(a, order) /\ Lt(b, order))
             THEN [cx |-> debug_assert(cx, FALSE), ret |-> "Ok"]
        ELSE [cx |-> set(cx, dst_src, Rem(res, order)), ret |-> "Ok"]

neg_mod(cx, dst_src, src) ==
    LET order == fq(cx)
        oa    == get(cx, src)
        a     == unwrap(oa)
    IN  IF ~is_some(oa) THEN [cx |-> cx, ret |-> "Fail"]
        ELSE IF ~Lt(a, order) THEN [cx |-> debug_assert(cx, FALSE), ret |-> "Ok"]
        ELSE [cx |-> set(cx, dst_src, wrapping_sub(order, a)), ret |-> "Ok"]

(***************************************************************************)
(* gfa/exec.rs: the executor.  A core is the register file cx with the     *)
(* host's control registers co and ck.                                     *)
(***************************************************************************)

\* Core::set_co of the host
set_co(core, res) == [core EXCEPT !.co = res]

\* src_regs that leaves out the register add and mul read and write
src_regs_of_src(instr) ==
    CASE instr.op \in {"Clr", "PutD", "PutZ", "PutV"} -> {}
      [] instr.op = "Eq" -> {instr.src1, instr.src2}
      [] instr.op \in {"Test", "Fits", "Mov", "Neg", "Add", "Mul"} -> {instr.src}

\* FieldInstr::src_regs, FieldInstr::dst_regs
src_regs(instr) ==
    CASE instr.op \in {"Clr", "PutD", "PutZ", "PutV"} -> {}
      [] instr.op = "Eq" -> {instr.src1, instr.src2}
      [] instr.op \in {"Test", "Fits", "Mov", "Neg"} -> {instr.src}
      [] instr.op \in {"Add", "Mul"} -> {instr.src, instr.dst_src}

dst_regs(instr) ==
    CASE instr.op \in {"Clr", "PutD", "PutZ", "PutV", "Mov"} -> {instr.dst}
      [] instr.op \in {"Eq", "Test", "Fits"} -> {}
      [] instr.op = "Neg" -> {instr.dst}
      [] instr.op \in {"Add", "Mul"} -> {instr.dst_src}

\* the match of FieldInstr::exec: the core after the arm and the arm's Status
exec_res(instr, core) ==
    CASE instr.op = "Test" ->
            [core |-> set_co(core, test(core.cx, instr.src)), res |-> "Ok"]
      [] instr.op = "Clr" ->
            [core |-> [core EXCEPT !.cx = clr(core.cx, instr.dst)], res |-> "Ok"]
      [] instr.op = "PutD" ->
            [core |-> [core EXCEPT !.cx = set(core.cx, instr.dst, instr.data)],
             res  |-> "Ok"]
      [] instr.op = "PutZ" ->
            [core |-> [core EXCEPT !.cx = set(core.cx, instr.dst, U256_ZERO)],
             res  |-> "Ok"]
      [] instr.op = "PutV" ->
            LET c   == to_fe256(instr.val)
                val == IF is_some(c) THEN unwrap(c)
                       ELSE wrapping_sub(fq(core.cx), U256_ONE)
            IN  [core |-> [core EXCEPT !.cx = set(core.cx, instr.dst, val)],
                 res  |-> "Ok"]
      [] instr.op = "Mov" ->
            [core |-> [core EXCEPT !.cx = mov(core.cx, instr.dst, instr.src)],
             res  |-> "Ok"]
      [] instr.op = "Eq" ->
            [core |-> set_co(core, eqv(core.cx, instr.src1, instr.src2)),
             res  |-> "Ok"]
      [] instr.op = "Fits" ->
            LET f == fits(core.cx, instr.src, instr.bits)
                c == [core EXCEPT !.cx = f.cx]
            IN  IF ~is_some(f.ret) THEN [core |-> c, res |-> "Fail"]
                ELSE IF unwrap(f.ret) THEN [core |-> set_co(c, "Ok"), res |-> "Ok"]
                ELSE [core |-> set_co(c, "Fail"), res |-> "Ok"]
      [] instr.op = "Neg" ->
            LET r == neg_mod(core.cx, instr.dst, instr.src)
            IN  [core |-> [core EXCEPT !.cx = r.cx], res |-> r.ret]
      [] instr.op = "Add" ->
            LET r == add_mod(core.cx, instr.dst_src, instr.src)
            IN  [core |-> [core EXCEPT !.cx = r.cx], res |-> r.ret]
      [] instr.op = "Mul" ->
            LET r == mul_mod(core.cx, instr.dst_src, instr.src)
            IN  [core |-> [core EXCEPT !.cx = r.cx], res |-> r.ret]

\* the step exec returns once its arm has left r: ExecStep::Next when the arm
\* gave Ok, else ExecStep::Fail; an abort inside the arm returns no step and
\* leaves the core as it was
exec_step(core, r) ==
    IF r.core.cx.panic
    THEN [core |-> [core EXCEPT !.cx.panic = TRUE], step |-> "Abort"]
    ELSE [core |-> r.core, step |-> IF r.res = "Ok" THEN "Next" ELSE "Fail"]

\* exec that writes the arm's Status to CK
status_to_ck(r) == [r EXCEPT !.core.ck = r.res]

exec_marking_ck(instr, core) == exec_step(core, status_to_ck(exec_res(instr, core)))

\* exec that takes a mov from an empty register for a failure
fail_empty_mov(instr, core, r) ==
    IF instr.op = "Mov" /\ ~is_some(get(core.cx, instr.src))
    THEN [r EXCEPT !.res = "Fail"] ELSE r

exec_failing_mov(instr, core) ==
    exec_step(core, fail_empty_mov(instr, core, exec_res(instr, core)))

\* exec that drops the arm's Status
exec_always_next(instr, core) ==
    exec_step(core, [exec_res(instr, core) EXCEPT !.res = "Ok"])

\* exec that returns ExecStep::Stop in place of ExecStep::Fail
stop_on_fail(r) == IF r.step = "Fail" THEN [r EXCEPT !.step = "Stop"] ELSE r

exec_stopping(instr, core) == stop_on_fail(exec_step(core, exec_res(instr, core)))

\* FieldInstr::exec
exec(instr, core) == exec_step(core, exec_res(instr, core))

\* the host on the step an instruction returns: ExecStep::Fail sets CK to Fail
host_step(core, step) ==
    IF step = "Fail" THEN [core EXCEPT !.ck = "Fail"] ELSE core

(***************************************************************************)
(* gfa/bytecode.rs: the codec.  The code segment is written and read four  *)
(* bits at a time, the low half of a byte first; a fixed-size block goes   *)
(* to the data segment and leaves its 16-bit offset in the code segment.   *)
(***************************************************************************)

START == 64
SET == START + 0
MOV == START + 1
EQ == START + 2
NEG == START + 3
ADD == START + 4
MUL == START + 5
END == MUL

SUB_TEST == 0
SUB_CLR == 1
SUB_PUTD == 2
SUB_PUTZ == 3
MASK_PUTV == 12
TEST_PUTV == 4
MASK_FITS == 8
TEST_FITS == 8

\* bitwise and, or, not on a u8
RECURSIVE BitAnd(_, _)
BitAnd(x, y) ==
    IF x = 0 \/ y = 0 THEN 0
    ELSE (x % 2) * (y % 2) + 2 * BitAnd(x \div 2, y \div 2)

BitNot(x) == 255 - x
BitOr(x, y) == x + y - BitAnd(x, y)

\* RegE::to_u4 and impl From<u4> for RegE
to_u4(reg) == reg
RegE_from(val) == CHOOSE reg \in RegE : to_u4(reg) = val

\* op_range without its last opcode
op_range_short == START..(END - 1)

\* FieldInstr::op_range
op_range == START..END

\* opcode_byte with the opcodes of neg and add exchanged
opcode_byte_exchanged(instr) ==
    CASE instr.op \in {"Test", "Clr", "PutD", "PutZ", "PutV", "Fits"} -> SET
      [] instr.op = "Mov" -> MOV
      [] instr.op = "Eq" -> EQ
      [] instr.op = "Neg" -> ADD
      [] instr.op = "Add" -> NEG
      [] instr.op = "Mul" -> MUL

opcode_byte(instr) ==
    CASE instr.op \in {"Test", "Clr", "PutD", "PutZ", "PutV", "Fits"} -> SET
      [] instr.op = "Mov" -> MOV
      [] instr.op = "Eq" -> EQ
      [] instr.op = "Neg" -> NEG
      [] instr.op = "Add" -> ADD
      [] instr.op = "Mul" -> MUL

\* code_byte_len that counts one operand byte for every instruction
code_byte_len_flat(instr) == 1 + 1

\* FieldInstr::code_byte_len: the operand bytes and the opcode byte
code_byte_len(instr) ==
    LET arg_len == CASE instr.op = "PutD" -> 3
                     [] instr.op \in {"Test", "Clr", "PutZ", "PutV", "Fits", "Mov",
                                       "Eq", "Neg", "Add", "Mul"} -> 1
    IN  arg_len + 1

\* FieldInstr::ext_data_bytes
ext_data_bytes(instr) ==
    CASE instr.op = "PutD" -> 32
      [] instr.op \in {"Test", "Clr", "PutZ", "PutV", "Fits", "Mov",
                        "Eq", "Neg", "Add", "Mul"} -> 0

\* Instruction::base_complexity of the host: a cost by the bytes an
\* instruction takes from its code (op_data_bytes: 1 for putv and fits), its
\* registers of 16 bytes and the data segment
base_complexity(instr) ==
    ((IF instr.op \in {"PutV", "Fits"} THEN 1 ELSE 0)
        + 16 * Cardinality(src_regs(instr)) * 10
        + 16 * Cardinality(dst_regs(instr)) * 10
        + ext_data_bytes(instr) * 100) * 8 * 1000

\* complexity that advertises the base cost for every instruction
complexity_flat(instr) == base_complexity(instr)

\* FieldInstr::complexity
complexity(instr) ==
    CASE instr.op \in {"Test", "Clr", "PutZ", "PutV", "PutD", "Mov", "Eq"} ->
            base_complexity(instr)
      [] instr.op \in {"Fits", "Neg", "Add", "Mul"} -> base_complexity(instr) * 2

\* the marshaller: code is the code segment in 4-bit halves, data the data segment
Marshaller == [code |-> <<>>, data |-> <<>>]

write_4bits(writer, x) == [writer EXCEPT !.code = Append(@, x)]

write_byte(writer, b) == write_4bits(write_4bits(writer, b % 16), b \div 16)

write_fixed(writer, bytes) ==
    LET offset == Len(writer.data)
        w == write_byte(write_byte(writer, offset % 256), offset \div 256)
    IN  [w EXCEPT !.data = @ \o bytes]

\* the code segment as bytes
RECURSIVE Pack(_)
Pack(code) ==
    IF code = <<>> THEN <<>>
    ELSE <<code[1] + 16 * code[2]>> \o Pack(SubSeq(code, 3, Len(code)))

\* the 4-bit half at position pos of the reader, the byte at pos, and the
\* fixed block whose offset stands at pos
read_4bits(reader, pos) == reader.code[pos]

read_byte(reader, pos) == read_4bits(reader, pos) + 16 * read_4bits(reader, pos + 1)

read_fixed(reader, pos, len) ==
    LET offset == read_byte(reader, pos) + 256 * read_byte(reader, pos + 2)
    IN  SubSeq(reader.data, offset + 1, offset + len)

encode_operands(instr, writer) ==
    CASE instr.op = "Test" ->
            write_4bits(write_4bits(writer, SUB_TEST), to_u4(instr.src))
      [] instr.op = "Clr" ->
            write_4bits(write_4bits(writer, SUB_CLR), to_u4(instr.dst))
      [] instr.op = "PutD" ->
            write_fixed(write_4bits(write_4bits(writer, SUB_PUTD), to_u4(instr.dst)),
                        instr.data)
      [] instr.op = "PutZ" ->
            write_4bits(write_4bits(writer, SUB_PUTZ), to_u4(instr.dst))
      [] instr.op = "PutV" ->
            write_4bits(write_4bits(writer, BitOr(TEST_PUTV, ConstVal_to_u2(instr.val))),
                        to_u4(instr.dst))
      [] instr.op = "Fits" ->
            write_4bits(write_4bits(writer, BitOr(TEST_FITS, Bits_to_u3(instr.bits))),
                        to_u4(instr.src))
      [] instr.op = "Mov" ->
            write_4bits(write_4bits(writer, to_u4(instr.dst)), to_u4(instr.src))
      [] instr.op = "Eq" ->
            write_4bits(write_4bits(writer, to_u4(instr.src1)), to_u4(instr.src2))
      [] instr.op = "Neg" ->
            write_4bits(write_4bits(writer, to_u4(instr.dst)), to_u4(instr.src))
      [] instr.op = "Add" ->
            write_4bits(write_4bits(writer, to_u4(instr.dst_src)), to_u4(instr.src))
      [] instr.op = "Mul" ->
            write_4bits(write_4bits(writer, to_u4(instr.dst_src)), to_u4(instr.src))

\* decode_operands that tests a fits discriminator under the mask of putv
decode_operands_one_mask(reader, pos, opcode) ==
    LET sub    == read_4bits(reader, pos)
        second == RegE_from(read_4bits(reader, pos + 1))
    IN  CASE opcode = SET /\ sub = SUB_TEST -> Test(second)
          [] opcode = SET /\ sub = SUB_CLR -> Clr(second)
          [] opcode = SET /\ sub = SUB_PUTD ->
                PutD(second, read_fixed(reader, pos + 2, U256_BYTES))
          [] opcode = SET /\ sub = SUB_PUTZ -> PutZ(second)
          [] opcode = SET /\ sub > SUB_PUTZ /\ BitAnd(sub, MASK_PUTV) = TEST_PUTV ->
                PutV(second, ConstVal_from(BitAnd(sub, BitNot(MASK_PUTV))))
          [] opcode = SET /\ sub > SUB_PUTZ /\ BitAnd(sub, MASK_PUTV) = TEST_FITS ->
                Fits(second, Bits_from(BitAnd(sub, BitNot(MASK_FITS))))
          [] opcode = MOV -> Mov(RegE_from(sub), second)
          [] opcode = EQ -> Eq(RegE_from(sub), second)
          [] opcode = NEG -> Neg(RegE_from(sub), second)
          [] opcode = ADD -> Add(RegE_from(sub), second)
          [] opcode = MUL -> Mul(RegE_from(sub), second)
          [] OTHER -> [op |-> "unreachable"]

\* decode_operands: the operands start at half-byte pos of the reader;
\* "unreachable" stands for the unreachable!() arms
decode_operands(reader, pos, opcode) ==
    LET first  == read_4bits(reader, pos)
        second == RegE_from(read_4bits(reader, pos + 1))
    IN  CASE opcode = SET ->
               LET sub == first
               IN  CASE sub = SUB_TEST -> Test(second)
                     [] sub = SUB_CLR -> Clr(second)
                     [] sub = SUB_PUTD ->
                           PutD(second, read_fixed(reader, pos + 2, U256_BYTES))
                     [] sub = SUB_PUTZ -> PutZ(second)
                     [] sub \notin {SUB_TEST, SUB_CLR, SUB_PUTD, SUB_PUTZ}
                        /\ BitAnd(sub, MASK_PUTV) = TEST_PUTV ->
                           PutV(second, ConstVal_from(BitAnd(sub, BitNot(MASK_PUTV))))
                     [] sub \notin {SUB_TEST, SUB_CLR, SUB_PUTD, SUB_PUTZ}
                        /\ BitAnd(sub, MASK_PUTV) # TEST_PUTV
                        /\ BitAnd(sub, MASK_FITS) = TEST_FITS ->
                           Fits(second, Bits_from(BitAnd(sub, BitNot(MASK_FITS))))
                     [] OTHER -> [op |-> "unreachable"]
          [] opcode = MOV -> Mov(RegE_from(first), second)
          [] opcode = EQ -> Eq(RegE_from(first), second)
          [] opcode = NEG -> Neg(RegE_from(first), second)
          [] opcode = ADD -> Add(RegE_from(first), second)
          [] opcode = MUL -> Mul(RegE_from(first), second)
          [] OTHER -> [op |-> "unreachable"]

\* Bytecode::encode_instr and decode_instr for a field instruction: the
\* opcode byte, then the operands
encode_instr(instr) == encode_operands(instr, write_byte(Marshaller, opcode_byte(instr)))

decode_instr(reader) == decode_operands(reader, 3, read_byte(reader, 1))

\* Lib::assemble followed by the host's decoding of the instruction
assembled(instr) == decode_instr(encode_instr(instr))

(***************************************************************************)
(* Instr: a host control instruction, a field instruction or a reserved    *)
(* one.  The host's instructions run on the host's registers alone, the    *)
(* subcore, which is merged back after them.                               *)
(***************************************************************************)

\* the opcodes of the host's control instructions
CtrlInstr_op_range == 0..16

\* Instr::Ctrl and Instr::Reserved, which keep their opcode
Ctrl(opcode) == [op |-> "Ctrl", opcode |-> opcode]
Reserved(opcode) == [op |-> "Reserved", opcode |-> opcode]

\* Bytecode::decode_operands for Instr
Instr_decode_operands(reader, pos, opcode) ==
    IF opcode \in CtrlInstr_op_range THEN Ctrl(opcode)
    ELSE IF opcode \in op_range THEN decode_operands(reader, pos, opcode)
    ELSE Reserved(opcode)

\* Bytecode::encode_instr for Instr
Instr_encode_instr(instr) ==
    IF instr.op \in {"Ctrl", "Reserved"}
    THEN write_byte(Marshaller, instr.opcode)
    ELSE encode_instr(instr)

\* Supercore<NoExt> for GfaCore; a merge that empties the slots
subcore(cx) == "NoExt"

merge_subcore_resetting(cx, sub) == reset(cx)

merge_subcore(cx, sub) == cx

\* Core::merge_subcore of the host
Core_merge_subcore(core, sub) ==
    [core EXCEPT !.co = sub.co, !.ck = sub.ck, !.cx = merge_subcore(@, sub.cx)]

\* a host control instruction on the subcore: it leaves the CO and CK and
\* returns the step of outcome
CtrlInstr_exec(sub, outcome) ==
    [core |-> [sub EXCEPT !.co = outcome.co, !.ck = outcome.ck], step |-> outcome.step]

\* a reserved instruction on the subcore
ReservedInstr_exec(sub) == [core |-> sub, step |-> "Fail"]

\* Instruction::exec for Instr: the host's instructions get Core::subcore,
\* which is merged back after them
Instr_exec(instr, core, outcome) ==
    IF instr.op \in {"Ctrl", "Reserved"}
    THEN LET sub == [co |-> core.co, ck |-> core.ck, cx |-> subcore(core.cx)]
             r == IF instr.op = "Ctrl" THEN CtrlInstr_exec(sub, outcome)
                  ELSE ReservedInstr_exec(sub)
         IN  [core |-> Core_merge_subcore(core, r.core), step |-> r.step]
    ELSE exec(instr, core)

(***************************************************************************)
(* fe.rs: the field element fe256, a wrapper of a u256, its text form      *)
(* "<hex>.fe" and its 32 little-endian bytes.  An fe256 is the u256 it     *)
(* wraps; a text is a sequence of one-character strings; a Result is a     *)
(* record with the field ok.                                               *)
(***************************************************************************)

Ok(v) == [ok |-> TRUE, val |-> v]
Err(e) == [ok |-> FALSE, err |-> e]

\* ParseFeError::NoSuffix, ParseFeError::Value and the hex::Error values
NoSuffix(s) == [kind |-> "NoSuffix", text |-> s]
Value(e) == [kind |-> "Value", inner |-> e]
InvalidLength(expected, got) == [kind |-> "InvalidLength", expected |-> expected, got |-> got]

\* the digits of {:X}, and those that from_hex accepts besides them
UpperHex == <<"0", "1", "2", "3", "4", "5", "6", "7", "8", "9", "A", "B", "C", "D", "E", "F">>
LowerHex == <<"0", "1", "2", "3", "4", "5", "6", "7", "8", "9", "a", "b", "c", "d", "e", "f">>

SUFFIX == <<".", "f", "e">>

\* u256::from_le_bytes, u256::to_le_bytes and u256::from_be_bytes
from_le_bytes(bytes) == [i \in 1..U256_BYTES |-> bytes[i]]
to_le_bytes(val) == [i \in 1..U256_BYTES |-> val[i]]

\* from_be_bytes that takes the first byte as the least significant
from_be_bytes_unreversed(buf) == [i \in 1..U256_BYTES |-> buf[i]]

from_be_bytes(buf) == [i \in 1..U256_BYTES |-> buf[U256_BYTES + 1 - i]]

\* From<[u8; 32]> for fe256
from_bytes(bytes) == from_le_bytes(bytes)

\* {:X}: the digits of val, most significant first, without leading zeros,
\* "0" for zero
upper_hex(val) ==
    LET digits == [i \in 1..2 * U256_BYTES |->
                      LET b == val[U256_BYTES - (i - 1) \div 2]
                      IN  UpperHex[(IF i % 2 = 1 THEN b \div 16 ELSE b % 16) + 1]]
        some == {i \in DOMAIN digits : digits[i] # "0"}
    IN  IF some = {} THEN <<"0">>
        ELSE SubSeq(digits, CHOOSE i \in some : \A j \in some : i <= j, Len(digits))

\* {:064X}: {:X} padded with zeros on the left to a width of 64
upper_hex_064(val) ==
    LET digits == upper_hex(val)
    IN  [i \in 1..(2 * U256_BYTES - Len(digits)) |-> "0"] \o digits

\* Display for fe256: "{0:X}.fe", alt = "{0:064X}.fe"
display(val, alt) ==
    (IF alt THEN upper_hex_064(val) ELSE upper_hex(val)) \o SUFFIX

\* the value of a hex digit, -1 for any other character
hex_value(c) ==
    IF \E i \in DOMAIN UpperHex : UpperHex[i] = c
    THEN (CHOOSE i \in DOMAIN UpperHex : UpperHex[i] = c) - 1
    ELSE IF \E i \in DOMAIN LowerHex : LowerHex[i] = c
    THEN (CHOOSE i \in DOMAIN LowerHex : LowerHex[i] = c) - 1
    ELSE -1

\* TinyBlob::from_hex on a text of even length: the bytes in the order of the
\* text, or the first character that is no hex digit
from_hex(s) ==
    LET bad == {i \in DOMAIN s : hex_value(s[i]) < 0}
    IN  IF bad # {}
        THEN Err([kind |-> "InvalidChar", char |-> s[CHOOSE i \in bad : \A j \in bad : i <= j]])
        ELSE Ok([i \in 1..(Len(s) \div 2) |->
                    16 * hex_value(s[2 * i - 1]) + hex_value(s[2 * i])])

\* str::strip_suffix(".fe")
strip_suffix(s) ==
    IF Len(s) >= Len(SUFFIX) /\ SubSeq(s, Len(s) - Len(SUFFIX) + 1, Len(s)) = SUFFIX
    THEN Some(SubSeq(s, 1, Len(s) - Len(SUFFIX)))
    ELSE None

BUF_SIZE == 32

\* a longer value cut to its last BUF_SIZE bytes
from_str_bytes_truncating(bytes) ==
    IF Len(bytes) > BUF_SIZE
    THEN Ok(from_be_bytes(SubSeq(bytes, Len(bytes) - BUF_SIZE + 1, Len(bytes))))
    ELSE Ok(from_be_bytes(Zeros(BUF_SIZE - Len(bytes)) \o bytes))

\* the bytes at the end of a zeroed buffer, read most significant first
from_str_bytes(bytes) ==
    IF Len(bytes) > BUF_SIZE
    THEN Err(Value(InvalidLength(BUF_SIZE, Len(bytes))))
    ELSE Ok(from_be_bytes(Zeros(BUF_SIZE - Len(bytes)) \o bytes))

\* FromStr for fe256: a "0" is put before an odd number of digits
from_str(s) ==
    IF is_some(strip_suffix(s))
    THEN LET hex == unwrap(strip_suffix(s))
             bytes == from_hex(IF Len(hex) % 2 = 1 THEN <<"0">> \o hex ELSE hex)
         IN  IF bytes.ok THEN from_str_bytes(bytes.val) ELSE Err(Value(bytes.err))
    ELSE Err(NoSuffix(s))

(***************************************************************************)
(* The machine: a register file built for one field order, and a host      *)
(* that issues field instructions to it one after another, either as       *)
(* instruction values or through the assembled bytecode of a library, and  *)
(* that may call put, clr and reset on the register file in between.       *)
(***************************************************************************)

\* the longest program issued
MaxSteps == 3

E2 == 1
EF == 13

\* the registers the issued instructions name: the two-register instructions
\* name E2 first and then either of the two, a register twice or two registers
ProgRegs == {E2, EF}

\* the field orders a register file is built for
Orders == {FIELD_ORDER_25519, FIELD_ORDER_STARK, FIELD_ORDER_SECP}

\* the 256-bit immediates of putd and of the host's put: a byte-sized value
\* and its successor, and one that is not below any field order
Immediates == {FromNat(255, U256_BYTES), FromNat(256, U256_BYTES), U256_MAX}

VARIABLES
    config,     \* GfaConfig.field_order the register file was built with
    FQ,         \* GfaCore.fq
    E,          \* GfaCore.e: the sixteen slots
    co,         \* the host's CO register
    ck,         \* the host's CK register
    aborted,    \* an assertion has aborted the executor
    assemble,   \* the program runs from assembled bytecode
    n,          \* calls and instructions issued so far
    last,       \* the instruction issued last, as issued and as executed, and its step
    pre,        \* slots, CO and CK before the instruction issued last
    fe,         \* a field element on its way through text or bytes
    halt,       \* CoreConfig.halt: the host stops a program once CK is Fail
    program     \* the code the host runs, one assembled instruction after another

vars == <<config, FQ, E, co, ck, aborted, assemble, n, last, pre, fe, halt, program>>

Core == [cx |-> [fq |-> FQ, e |-> E, panic |-> aborted], co |-> co, ck |-> ck]

NoInstr == [op |-> "none"]

\* the registers of S that the register file has
Regs(S) == S \cap DOMAIN E

\* a register file as constructed, and a host about to run a program, from
\* assembled bytecode or not
Start(asm) ==
    /\ config \in Orders
    /\ FQ = with(config).fq
    /\ E = with(config).e
    /\ co = "Ok"
    /\ ck = "Ok"
    /\ aborted = FALSE
    /\ assemble = asm
    /\ n = 0
    /\ last = [instr |-> NoInstr, decoded |-> NoInstr, step |-> "none"]
    /\ pre = [e |-> E, co |-> co, ck |-> ck]

\* no field element under way
NoFe == [stage |-> "none", val |-> <<>>, alt |-> FALSE, text |-> <<>>, res |-> Err("none")]

\* CONFIG of the tests and no program: the instructions come one by one
Init == Start(FALSE) /\ fe = NoFe /\ halt = FALSE /\ program = <<>>

InitAssembled == Start(TRUE) /\ fe = NoFe /\ halt = FALSE /\ program = <<>>

\* the host on the step r of the decoded instruction
handled(decoded, r) ==
    [decoded |-> decoded, step |-> r.step, core |-> host_step(r.core, r.step)]

\* the host on instr: decoded from bytecode when the program is assembled,
\* executed, and its step handled
run(instr, asm, core) ==
    LET decoded == IF asm THEN assembled(instr) ELSE instr
    IN  handled(decoded, exec(decoded, core))

\* the machine after a call or an instruction that left the core c
Commit(instr, decoded, step, c) ==
    /\ ~aborted
    /\ n < MaxSteps
    /\ FQ' = c.cx.fq
    /\ E' = c.cx.e
    /\ aborted' = c.cx.panic
    /\ co' = c.co
    /\ ck' = c.ck
    /\ n' = n + 1
    /\ last' = [instr |-> instr, decoded |-> decoded, step |-> step]
    /\ pre' = [e |-> E, co |-> co, ck |-> ck]
    /\ UNCHANGED <<assemble, config, fe, halt, program>>

Done(instr, r) == Commit(instr, r.decoded, r.step, r.core)

Issue(instr) == Done(instr, run(instr, assemble, Core))

\* a call of the host on the register file, outside any instruction
Call(name, cx) == Commit([op |-> name], NoInstr, "none", [Core EXCEPT !.cx = cx])

ExecTest == \E src \in Regs(ProgRegs) : Issue(Test(src))
ExecClr == \E dst \in Regs({E2}) : Issue(Clr(dst))
ExecPutD == \E dst \in Regs({E2}), data \in Immediates : Issue(PutD(dst, data))
ExecPutZ == \E dst \in Regs({EF}) : Issue(PutZ(dst))
ExecPutV == \E dst \in Regs(ProgRegs), val \in ConstVal : Issue(PutV(dst, val))
ExecFits == \E src \in Regs({E2}), bits \in Bits : Issue(Fits(src, bits))
ExecMov == \E dst \in Regs({E2}), src \in Regs(ProgRegs) : Issue(Mov(dst, src))
ExecEq == \E src1 \in Regs({E2}), src2 \in Regs(ProgRegs) : Issue(Eq(src1, src2))
ExecNeg == \E dst \in Regs({E2}), src \in Regs(ProgRegs) : Issue(Neg(dst, src))
ExecAdd == \E dst_src \in Regs({E2}), src \in Regs(ProgRegs) : Issue(Add(dst_src, src))
ExecMul == \E dst_src \in Regs({E2}), src \in Regs(ProgRegs) : Issue(Mul(dst_src, src))
HostPut ==
    \E reg \in Regs({EF}), val \in {None, Some(FromNat(256, U256_BYTES)), Some(U256_MAX)} :
        Call("put", put(Core.cx, reg, val))
HostClr == \E reg \in Regs({EF}) : Call("clr", clr(Core.cx, reg))
HostReset == Call("reset", reset(Core.cx))

Next ==
    \/ ExecTest
    \/ ExecClr
    \/ ExecPutD
    \/ ExecPutZ
    \/ ExecPutV
    \/ ExecFits
    \/ ExecMov
    \/ ExecEq
    \/ ExecNeg
    \/ ExecAdd
    \/ ExecMul
    \/ HostPut
    \/ HostClr
    \/ HostReset

\* the instructions executed as issued
Spec == Init /\ [][Next]_vars

\* the instructions executed from the bytecode they assemble to
SpecAssembled == InitAssembled /\ [][Next]_vars

\* the register file of the default configuration
InitDefault == Init /\ config = GfaConfig_default

\* the instructions executed as issued on the register file of the default
\* configuration
SpecDefault == InitDefault /\ [][Next]_vars

(***************************************************************************)
(* The host on a program: it decodes the instruction where the program     *)
(* stands, executes it and handles its step, until the program ends, a     *)
(* step stops it, or a step fails with the halt policy set.                *)
(***************************************************************************)

\* one instruction of every opcode and of every discriminator of the SET
\* class, each an opcode byte and an operand byte with room for a putd, and
\* the programs of two instructions and more
Programs ==
    {<<write_fixed(write_byte(write_byte(Marshaller, opcode), 16 * EF + E2), U256_ONE)>> :
        opcode \in 0..255}
    \cup {<<write_fixed(write_byte(write_byte(Marshaller, SET), 16 * EF + sub), U256_ONE)>> :
        sub \in 0..15}
    \cup UNION {[1..len ->
                    {Instr_encode_instr(i) :
                        i \in {PutD(E2, FromNat(255, U256_BYTES)), PutZ(EF), Neg(E2, EF),
                               Test(EF), Ctrl(0), Reserved(255)}}] :
                len \in 2..MaxSteps}

InitProgram ==
    /\ Start(TRUE)
    /\ fe = NoFe
    /\ halt \in BOOLEAN
    /\ program \in Programs

\* the host goes on to the next instruction unless a step has stopped the
\* program, or has failed with the halt policy set
Running == n < Len(program) /\ last.step # "Stop" /\ ~(halt /\ last.step = "Fail")

\* the instruction where the program stands: Bytecode::decode_instr for Instr
Fetch == Instr_decode_operands(program[n + 1], 3, read_byte(program[n + 1], 1))

Execute(decoded, outcome) ==
    Done([op |-> "code", unit |-> program[n + 1]],
         handled(decoded, Instr_exec(decoded, Core, outcome)))

StepGfa ==
    /\ Running
    /\ Fetch.op \notin {"Ctrl", "Reserved"}
    /\ Execute(Fetch, [co |-> co, ck |-> ck, step |-> "Next"])

\* a host control instruction may leave any CO and CK and return any step
StepCtrl ==
    /\ Running
    /\ Fetch.op = "Ctrl"
    /\ \E outcome \in [co : Status, ck : Status, step : {"Next", "Fail", "Stop"}] :
            Execute(Fetch, outcome)

StepReserved ==
    /\ Running
    /\ Fetch.op = "Reserved"
    /\ Execute(Fetch, [co |-> co, ck |-> ck, step |-> "Next"])

NextProgram ==
    \/ StepGfa
    \/ StepCtrl
    \/ StepReserved

SpecProgram == InitProgram /\ [][NextProgram]_vars

(***************************************************************************)
(* Field elements through their text and byte forms: a value is formatted  *)
(* and the text parsed, or taken to its 32 bytes and built from them; a    *)
(* text from outside is parsed as it comes.                                *)
(***************************************************************************)

\* the character c len times
Repeat(c, len) == [i \in 1..len |-> c]

\* the values formatted: small ones, one byte of one or two digits at every
\* place, the orders, and the largest
FeValues ==
    {FromNat(k, U256_BYTES) : k \in 0..17} \cup {FromNat(837, U256_BYTES), U256_MAX}
        \cup {[i \in 1..U256_BYTES |-> IF i = p THEN b ELSE 0] :
                    p \in 1..U256_BYTES, b \in {1, 16, 248, 255}}
        \cup Orders

\* the texts from outside
FeTexts ==
    { Repeat("0", 64),
      <<"3", "4", "5">>,
      <<"3", "4", "5", ".", "F", "E">>,
      <<"3", "4", "5", ".", "f", "e">>,
      SUFFIX,
      <<"f", "f", ".", "f", "e">>,
      <<"0", "G", ".", "f", "e">>,
      <<"1", "2", " ", ".", "f", "e">>,
      Repeat("0", 64) \o SUFFIX,
      Repeat("F", 64) \o SUFFIX,
      <<"F", "8">> \o Repeat("0", 62) \o SUFFIX,
      <<"0", "8">> \o Repeat("0", 62) \o SUFFIX,
      <<"A", "A">> \o Repeat("0", 64) \o SUFFIX,
      <<"0", "0">> \o Repeat("F", 64) \o SUFFIX,
      <<"1">> \o Repeat("0", 64) \o SUFFIX,
      <<"1">> \o Repeat("F", 67) \o SUFFIX }

InitFe ==
    /\ Start(FALSE)
    /\ halt = FALSE
    /\ program = <<>>
    /\ config = GfaConfig_default
    /\ \/ \E val \in FeValues : fe = [NoFe EXCEPT !.stage = "value", !.val = val]
       \/ \E text \in FeTexts : fe = [NoFe EXCEPT !.stage = "untrusted", !.text = text]

\* format!("{}", fe) and format!("{:#}", fe)
Display ==
    \E alt \in BOOLEAN :
        /\ fe.stage = "value"
        /\ fe' = [fe EXCEPT !.stage = "text", !.alt = alt, !.text = display(fe.val, alt)]
        /\ UNCHANGED <<config, FQ, E, co, ck, aborted, assemble, n, last, pre, halt, program>>

\* fe256::from_str on a formatted text or on a text from outside
FromStr ==
    /\ fe.stage \in {"text", "untrusted"}
    /\ fe' = [fe EXCEPT !.stage = IF fe.stage = "text" THEN "reparsed" ELSE "parsed",
                         !.res = from_str(fe.text)]
    /\ UNCHANGED <<config, FQ, E, co, ck, aborted, assemble, n, last, pre, halt, program>>

\* fe256::from on the 32 little-endian bytes of the value
FromBytes ==
    /\ fe.stage = "value"
    /\ fe' = [fe EXCEPT !.stage = "built", !.res = Ok(from_bytes(to_le_bytes(fe.val)))]
    /\ UNCHANGED <<config, FQ, E, co, ck, aborted, assemble, n, last, pre, halt, program>>

NextFe ==
    \/ Display
    \/ FromStr
    \/ FromBytes

SpecFe == InitFe /\ [][NextFe]_vars

(***************************************************************************)
(* The properties.  The instruction executed last is last.decoded; pre     *)
(* holds the slots, CO and CK it found.  The arithmetic is compared with   *)
(* sums and products taken at a width that cannot wrap.                    *)
(***************************************************************************)

\* (a + b) mod q, the sum taken at 264 bits
SumModOrder(a, b, q) ==
    Low(Rem(wrapping_add(Widen(a, U256_BYTES + 1), Widen(b, U256_BYTES + 1)),
            Widen(q, U256_BYTES + 1)),
        U256_BYTES)

\* (a * b) mod q, the product taken at 512 bits
ProductModOrder(a, b, q) == Low(Rem(MulWide(a, b), Widen(q, U512_BYTES)), U256_BYTES)

\* (q - a) mod q for a < q
NegationModOrder(a, q) == IF a = U256_ZERO THEN U256_ZERO ELSE wrapping_sub(q, a)

\* v < 2^bits, for bits a multiple of 8: no byte from bits upwards is set
BelowPow2(v, bits) == \A i \in (bits \div 8 + 1)..Len(v) : v[i] = 0

HostCalls == {"put", "clr", "reset"}

\* C1: add on two occupied slots reports Ok and stores (a + b) mod q in
\* dst_src, also when the 256-bit sum a + b wraps past 2^256.
AddStoresSumModOrder ==
    (/\ last.decoded.op = "Add"
     /\ is_some(pre.e[last.decoded.dst_src])
     /\ is_some(pre.e[last.decoded.src]))
    => /\ last.step = "Next"
       /\ E[last.decoded.dst_src] =
            Some(SumModOrder(unwrap(pre.e[last.decoded.dst_src]),
                             unwrap(pre.e[last.decoded.src]), FQ))

\* C1: q - 1 added to itself wraps, and the slot is left with q - 3 where
\* (a + b) mod q is q - 2.
AddWrappedIsOneShort ==
    /\ last.decoded.op = "Add"
    /\ last.decoded.dst_src = last.decoded.src
    /\ last.step = "Next"
    /\ pre.e[last.decoded.src] = Some(wrapping_sub(FQ, U256_ONE))
    /\ SumModOrder(wrapping_sub(FQ, U256_ONE), wrapping_sub(FQ, U256_ONE), FQ)
         = wrapping_sub(FQ, FromNat(2, U256_BYTES))
    /\ E[last.decoded.dst_src] = Some(wrapping_sub(FQ, FromNat(3, U256_BYTES)))

\* C2: neg on an occupied src reports Ok and stores (q - a) mod q in dst; the
\* negation of 0 is 0.
NegStoresNegationModOrder ==
    (/\ last.decoded.op = "Neg"
     /\ is_some(pre.e[last.decoded.src]))
    => /\ last.step = "Next"
       /\ E[last.decoded.dst] =
            Some(NegationModOrder(unwrap(pre.e[last.decoded.src]), FQ))

\* C2: neg of a slot holding 0 aborts in put and stores nothing.
NegOfZeroAborts ==
    /\ last.decoded.op = "Neg"
    /\ pre.e[last.decoded.src] = Some(U256_ZERO)
    /\ aborted
    /\ last.step = "Abort"
    /\ E = pre.e

\* C3: mul on two occupied slots reports Ok and stores (a * b) mod q in
\* dst_src, the product taken at double width.
MulStoresProductModOrder ==
    (/\ last.decoded.op = "Mul"
     /\ is_some(pre.e[last.decoded.dst_src])
     /\ is_some(pre.e[last.decoded.src]))
    => /\ last.step = "Next"
       /\ ~aborted
       /\ E[last.decoded.dst_src] =
            Some(ProductModOrder(unwrap(pre.e[last.decoded.dst_src]),
                                 unwrap(pre.e[last.decoded.src]), FQ))

\* C3: q - 1 in two registers multiplied gives 1, for the largest order.
MulOfOrderLessOneIsOne ==
    /\ FQ = FIELD_ORDER_SECP
    /\ last.decoded.op = "Mul"
    /\ last.decoded.dst_src # last.decoded.src
    /\ pre.e[last.decoded.dst_src] = Some(wrapping_sub(FQ, U256_ONE))
    /\ pre.e[last.decoded.src] = Some(wrapping_sub(FQ, U256_ONE))
    /\ E[last.decoded.dst_src] = Some(U256_ONE)

\* C4: every occupied slot holds a value below FQ, whatever calls and
\* instructions came before.
SlotsBelowOrder == \A reg \in RegE : is_some(E[reg]) => Lt(unwrap(E[reg]), FQ)

\* C4: neg has left the largest element, q - 1, in its destination.
SlotHoldsOrderLessOne ==
    /\ ~aborted
    /\ last.decoded.op = "Neg"
    /\ E[last.decoded.dst] = Some(wrapping_sub(FQ, U256_ONE))

\* C5: the instruction decoded from the bytecode of an issued instruction is
\* the issued instruction.
DecodedIsIssued ==
    (assemble /\ last.instr.op \notin HostCalls \cup {"none"})
    => last.decoded = last.instr

\* C5: fits with 128 bits comes back from its bytecode with 96 bits.
Bits128DecodedAsBits96 ==
    /\ assemble
    /\ last.instr.op = "Fits"
    /\ last.instr.bits = "Bits128"
    /\ last.decoded = Fits(last.instr.src, "Bits96")

\* C6: in an assembled program, fits r, N.bits on an occupied register sets
\* CO to Ok when the value is below 2^N and to Fail when it is not, for the N
\* the program states, and changes neither CK nor a register.
AssembledFitsTellsWidth ==
    (/\ assemble
     /\ last.instr.op = "Fits"
     /\ is_some(pre.e[last.instr.src]))
    => /\ co = IF BelowPow2(unwrap(pre.e[last.instr.src]), bit_len(last.instr.bits))
               THEN "Ok" ELSE "Fail"
       /\ ck = pre.ck
       /\ E = pre.e

\* C6: 2^128 - 1 is below 2^128, and the assembled fits r, 128.bits sets CO
\* to Fail on it.
AssembledFits128FailsBelow128 ==
    /\ assemble
    /\ last.instr.op = "Fits"
    /\ last.instr.bits = "Bits128"
    /\ pre.e[last.instr.src] = Some(Widen([i \in 1..16 |-> 255], U256_BYTES))
    /\ pre.co = "Ok"
    /\ co = "Fail"

FitsOnEmptySetsCoAndCk ==
    (/\ last.decoded.op = "Fits"
     /\ ~is_some(pre.e[last.decoded.src]))
    => /\ co = "Fail"
       /\ ck = "Fail"

\* C8: fits on an empty register has set CK to Fail and left CO at Ok.
FitsOnEmptyLeftCoOk ==
    /\ last.decoded.op = "Fits"
    /\ ~is_some(pre.e[last.decoded.src])
    /\ last.step = "Fail"
    /\ pre.co = "Ok"
    /\ co = "Ok"
    /\ ck = "Fail"

\* C9: a Fits value executed as it is on an occupied register sets CO to Ok
\* when the value is below 2^bit_len and to Fail when it is not, returns the
\* step Next and changes neither CK nor a register.
DirectFitsTellsWidth ==
    (/\ ~assemble
     /\ last.instr.op = "Fits"
     /\ is_some(pre.e[last.instr.src]))
    => /\ co = IF BelowPow2(unwrap(pre.e[last.instr.src]), bit_len(last.instr.bits))
               THEN "Ok" ELSE "Fail"
       /\ last.step = "Next"
       /\ ~aborted
       /\ ck = pre.ck
       /\ E = pre.e

\* C9: Fits with 128 bits, executed as it is on 2^128 - 1 with CO at Fail,
\* has set CO to Ok.
DirectFits128OkBelow128 ==
    /\ ~assemble
    /\ last.instr.op = "Fits"
    /\ last.instr.bits = "Bits128"
    /\ pre.e[last.instr.src] = Some(Widen([i \in 1..16 |-> 255], U256_BYTES))
    /\ pre.co = "Fail"
    /\ co = "Ok"
    /\ last.step = "Next"

TestTellsOccupancy ==
    last.decoded.op = "Test"
    => /\ co = IF is_some(pre.e[last.decoded.src]) THEN "Ok" ELSE "Fail"
       /\ last.step = "Next"
       /\ ~aborted
       /\ ck = pre.ck
       /\ E = pre.e

\* C11: test found its register empty with CO at Ok and CK at Ok; CO is Fail
\* and CK is still Ok.
TestOnEmptySetCoFail ==
    /\ last.decoded.op = "Test"
    /\ ~is_some(pre.e[last.decoded.src])
    /\ pre.co = "Ok"
    /\ pre.ck = "Ok"
    /\ co = "Fail"
    /\ ck = "Ok"

\* C12: CK is monotone: once it is Fail, no instruction (and no call of the
\* host on the register file) returns it to Ok.
CkStaysFail == [][ck = "Fail" => ck' = "Fail"]_vars

\* C12: an instruction that succeeds was executed with CK at Fail, and CK is
\* still Fail.
SucceededWithCkFail ==
    /\ last.decoded.op \in {"Test", "PutZ", "PutV", "Eq", "Mul"}
    /\ last.step = "Next"
    /\ pre.ck = "Fail"
    /\ ck = "Fail"

MovCopiesSlot ==
    last.decoded.op = "Mov"
    => /\ ~aborted
       /\ E = [pre.e EXCEPT ![last.decoded.dst] = pre.e[last.decoded.src]]

\* C14: mov from an empty register into an occupied one has emptied it.
MovOfEmptyEmptiedDst ==
    /\ last.decoded.op = "Mov"
    /\ last.decoded.dst # last.decoded.src
    /\ is_some(pre.e[last.decoded.dst])
    /\ ~is_some(pre.e[last.decoded.src])
    /\ ~is_some(E[last.decoded.dst])

PutDPutZClrReplaceSlot ==
    /\ (last.decoded.op = "PutD" /\ Lt(last.decoded.data, FQ))
       => E = [pre.e EXCEPT ![last.decoded.dst] = Some(last.decoded.data)]
    /\ last.decoded.op = "PutZ"
       => E = [pre.e EXCEPT ![last.decoded.dst] = Some(Zeros(32))]
    /\ last.decoded.op = "Clr"
       => E = [pre.e EXCEPT ![last.decoded.dst] = None]

\* C16: putd has replaced another value that its destination held,
\* with the other register occupied.
PutDReplacedValue ==
    /\ last.decoded.op = "PutD"
    /\ is_some(pre.e[last.decoded.dst])
    /\ pre.e[last.decoded.dst] # Some(last.decoded.data)
    /\ E[last.decoded.dst] = Some(last.decoded.data)
    /\ \E reg \in RegE \ {last.decoded.dst} : is_some(E[reg])

\* C17: a register file as constructed has every slot empty and FQ at the
\* configured order; reset leaves every slot empty and FQ as it was, and a
\* second reset changes nothing.
ResetEmptiesSlots ==
    /\ n = 0 => /\ \A reg \in RegE : E[reg] = None
                /\ FQ = config
    /\ last.instr.op = "reset"
       => /\ \A reg \in RegE : E[reg] = None
          /\ FQ = config
          /\ reset(Core.cx) = Core.cx

\* C17: reset found both E2 and EF occupied and has emptied them.
ResetEmptiedOccupiedSlots ==
    /\ last.instr.op = "reset"
    /\ is_some(pre.e[E2])
    /\ is_some(pre.e[EF])
    /\ E[E2] = None
    /\ E[EF] = None

\* C18: FQ holds the configured order in every reachable state.
FqIsConfigured == FQ = config

\* C18: a longest program ending in an add that stored its sum has left FQ
\* at the configured order.
FqConfiguredAfterAdd ==
    /\ n = MaxSteps
    /\ last.decoded.op = "Add"
    /\ last.step = "Next"
    /\ is_some(E[last.decoded.dst_src])
    /\ config = FIELD_ORDER_SECP
    /\ FQ = FIELD_ORDER_SECP

\* an instruction has been issued last, not a call of the host
Issued == last.instr.op \notin HostCalls \cup {"none"}

EncodedHead(instr) == SubSeq(Pack(encode_instr(instr).code), 1, 2)

\* C20: the encoder emits the opcode byte 0x40 for test, clr, putd, putz,
\* putv and fits and 0x41..0x45 for mov, eq, neg, add and mul; the next byte
\* is (reg << 4) | discriminator for the first class, the discriminator 0000
\* for test, 0001 clr, 0010 putd, 0011 putz, 01vv putv and 1bbb fits, and
\* (src << 4) | dst for the others, (src2 << 4) | src1 for eq.
EncoderEmitsOpcodeAndOperands ==
    Issued
    => LET i == last.instr
       IN  EncodedHead(i) =
           CASE i.op = "Test" -> <<64, i.src * 16 + 0>>
             [] i.op = "Clr" -> <<64, i.dst * 16 + 1>>
             [] i.op = "PutD" -> <<64, i.dst * 16 + 2>>
             [] i.op = "PutZ" -> <<64, i.dst * 16 + 3>>
             [] i.op = "PutV" ->
                   <<64, i.dst * 16 + 4 +
                         (CASE i.val = "Val1" -> 0 [] i.val = "ValU64Max" -> 1
                            [] i.val = "ValU128Max" -> 2 [] i.val = "ValFeMAX" -> 3)>>
             [] i.op = "Fits" ->
                   <<64, i.src * 16 + 8 +
                         (CASE i.bits = "Bits8" -> 0 [] i.bits = "Bits16" -> 1
                            [] i.bits = "Bits24" -> 2 [] i.bits = "Bits32" -> 3
                            [] i.bits = "Bits48" -> 4 [] i.bits = "Bits64" -> 5
                            [] i.bits = "Bits96" -> 6 [] i.bits = "Bits128" -> 7)>>
             [] i.op = "Mov" -> <<65, i.src * 16 + i.dst>>
             [] i.op = "Eq" -> <<66, i.src2 * 16 + i.src1>>
             [] i.op = "Neg" -> <<67, i.src * 16 + i.dst>>
             [] i.op = "Add" -> <<68, i.src * 16 + i.dst_src>>
             [] i.op = "Mul" -> <<69, i.src * 16 + i.dst_src>>

\* C20: neg E2, EF was assembled to the bytes 0x43 0xD1.
NegAssembledTo43D1 ==
    /\ assemble
    /\ last.instr = Neg(E2, EF)
    /\ EncodedHead(last.instr) = <<67, 209>>

\* the error the untrusted constructors are said to return
Overflow == [kind |-> "Overflow"]

\* a text parsed, as formatted from a value or as it came from outside
Parsed == fe.stage \in {"parsed", "reparsed"}

\* the digits of a text that ends in ".fe"
HexPart(text) == SubSeq(text, 1, Len(text) - Len(SUFFIX))

HasSuffix(text) ==
    /\ Len(text) >= 3
    /\ text[Len(text) - 2] = "."
    /\ text[Len(text) - 1] = "f"
    /\ text[Len(text)] = "e"

\* C21: from_str returns no field element whose top five bits are all set:
\* the text of such a value is answered with the Overflow error.
FromStrRejectsTopFiveBits ==
    Parsed =>
        /\ fe.res.ok => fe.res.val[U256_BYTES] < 248
        /\ fe.stage = "reparsed" /\ fe.val[U256_BYTES] >= 248 => fe.res = Err(Overflow)

\* C21: the text of 64 digits F from outside was parsed to u256::MAX.
FromStrAcceptedMax ==
    /\ fe.stage = "parsed"
    /\ fe.text = Repeat("F", 64) \o SUFFIX
    /\ fe.res = Ok(U256_MAX)

\* C22: a value is formatted as its upper-case hex digits without leading
\* zeros and ".fe", or as all its 64 digits and ".fe"; parsing either text
\* gives the value again, and so does building it from its 32 little-endian
\* bytes.
FeRoundTrips ==
    /\ fe.stage \in {"text", "reparsed"} =>
        /\ HasSuffix(fe.text)
        /\ \A i \in DOMAIN HexPart(fe.text) :
                \E d \in DOMAIN UpperHex : HexPart(fe.text)[i] = UpperHex[d]
        /\ fe.alt => Len(HexPart(fe.text)) = 64
        /\ ~fe.alt => \/ HexPart(fe.text) = <<"0">> /\ fe.val = U256_ZERO
                      \/ /\ Len(HexPart(fe.text)) \in 1..64
                         /\ HexPart(fe.text)[1] # "0"
    /\ fe.stage = "reparsed" => fe.res = Ok(fe.val)
    /\ fe.stage = "built" => fe.res = Ok(fe.val)

\* C22: 0x345 was formatted as 345.fe and parsed to 0x345 again.
ShortTextReparsed ==
    /\ fe.stage = "reparsed"
    /\ fe.text = <<"3", "4", "5", ".", "f", "e">>
    /\ fe.val = FromNat(837, U256_BYTES)
    /\ fe.res = Ok(fe.val)

\* C23: from_str answers a text without the suffix .fe with NoSuffix and the
\* text, and hex digits that make n > 32 bytes with InvalidLength(32, n); it
\* returns a field element for no such text.
FromStrErrors ==
    Parsed =>
        /\ ~HasSuffix(fe.text) => fe.res = Err(NoSuffix(fe.text))
        /\ /\ HasSuffix(fe.text)
           /\ \A i \in DOMAIN HexPart(fe.text) : hex_value(HexPart(fe.text)[i]) >= 0
           /\ Len(HexPart(fe.text)) > 2 * BUF_SIZE
           => fe.res = Err(Value(InvalidLength(BUF_SIZE, (Len(HexPart(fe.text)) + 1) \div 2)))
        /\ fe.res.ok => HasSuffix(fe.text) /\ Len(HexPart(fe.text)) <= 2 * BUF_SIZE

\* C23: AA and 64 zeros, 33 bytes, was answered with InvalidLength(32, 33).
LongTextRejected ==
    /\ fe.stage = "parsed"
    /\ fe.text = <<"A", "A">> \o Repeat("0", 64) \o SUFFIX
    /\ fe.res = Err(Value(InvalidLength(32, 33)))

FieldOps == {"Test", "Clr", "PutD", "PutZ", "PutV", "Fits", "Mov", "Eq", "Neg", "Add", "Mul"}

\* the opcode byte of a piece of code
OpcodeOf(unit) == unit.code[1] + 16 * unit.code[2]

\* the host has executed an instruction of the program
Stepped == last.instr.op = "code"

\* the core the last instruction found, had CK been Ok
CoreBefore == [cx |-> [fq |-> FQ, e |-> pre.e, panic |-> FALSE], co |-> pre.co, ck |-> "Ok"]

\* C24: a reserved instruction and a host control instruction executed
\* through Instr::exec leave the sixteen slots and FQ as they were; after a
\* reserved instruction CK is Fail and CO is what it was, so a program that
\* is the reserved opcode 0xFF alone ends with CK = Fail and CO = Ok.
HostInstrsKeepRegisterFile ==
    Stepped =>
        /\ last.decoded.op \in {"Ctrl", "Reserved"} =>
              E = pre.e /\ FQ = config /\ ~aborted
        /\ last.decoded.op = "Reserved" => ck = "Fail" /\ co = pre.co
        /\ program = <<Instr_encode_instr(Reserved(255))>> =>
              last.decoded = Reserved(255) /\ ck = "Fail" /\ co = "Ok"

\* C24: putd E2, 255 followed by the reserved opcode 0xFF has left 255 in E2
\* and CK at Fail.
ReservedAfterPutDKeptSlot ==
    /\ n = 2
    /\ pre.ck = "Ok"
    /\ last.decoded = Reserved(255)
    /\ E[E2] = Some(FromNat(255, U256_BYTES))
    /\ ck = "Fail"

DecodeDispatchesOnOpcode ==
    /\ n < Len(program) =>
        /\ OpcodeOf(program[n + 1]) \in 64..69 => Fetch.op \in FieldOps
        /\ OpcodeOf(program[n + 1]) \notin (64..69) \cup CtrlInstr_op_range =>
              Fetch = Reserved(OpcodeOf(program[n + 1]))
        /\ Fetch.op \in FieldOps => OpcodeOf(program[n + 1]) \in 64..69
    /\ Stepped =>
        /\ OpcodeOf(last.instr.unit) \in 64..69 <=> last.decoded.op \in FieldOps
        /\ OpcodeOf(last.instr.unit) \notin (64..69) \cup CtrlInstr_op_range =>
              last.decoded = Reserved(OpcodeOf(last.instr.unit))

\* C30: the opcode 0x46, the first above the field opcodes, was decoded as a
\* reserved instruction and executed as one.
Opcode46DecodedReserved ==
    /\ Stepped
    /\ OpcodeOf(last.instr.unit) = 70
    /\ last.decoded = Reserved(70)
    /\ ck = "Fail"

\* 2^k as a u256, for k < 256
Pow2(k) == [i \in 1..U256_BYTES |-> IF i = k \div 8 + 1 THEN 2^(k % 8) ELSE 0]

\* C25: put with None leaves what clr leaves; put with Some(v) leaves v in
\* the slot and the others as they were when v is below FQ, and aborts with
\* every slot as it was when v is FQ or more; a put of the host has done one
\* or the other.
PutStoresBelowOrderOrAborts ==
    /\ \A reg \in {E2, EF} :
        /\ put(Core.cx, reg, None) = clr(Core.cx, reg)
        /\ \A v \in {U256_ZERO, FromNat(256, U256_BYTES), wrapping_sub(FQ, U256_ONE)} :
              put(Core.cx, reg, Some(v)) = [Core.cx EXCEPT !.e[reg] = Some(v)]
        /\ \A v \in {FQ, wrapping_add(FQ, U256_ONE), U256_MAX} :
              put(Core.cx, reg, Some(v)) = [Core.cx EXCEPT !.panic = TRUE]
    /\ last.instr.op = "put" =>
          IF aborted THEN E = pre.e
          ELSE \/ E = [pre.e EXCEPT ![EF] = None]
               \/ /\ E = [pre.e EXCEPT ![EF] = E[EF]]
                  /\ is_some(E[EF])
                  /\ Lt(unwrap(E[EF]), FQ)

\* C25: a put of u256::MAX on an occupied slot has aborted and left the slot
\* with what it held.
PutOfMaxAborted ==
    /\ last.instr.op = "put"
    /\ aborted
    /\ is_some(pre.e[EF])
    /\ E = pre.e

\* C26: the built-in orders are the primes 2^255 - 19, 2^256 - 2^32 - 977 and
\* 2^251 + 17 * 2^192 + 1, the default configuration has the first, and a
\* register file built for a built-in order has one of the three primes as
\* its FQ.
FieldOrdersAreThePrimes ==
    /\ FIELD_ORDER_25519 = wrapping_sub(Pow2(255), FromNat(19, U256_BYTES))
    /\ FIELD_ORDER_SECP =
          wrapping_sub(wrapping_sub(U256_ZERO, Pow2(32)), FromNat(977, U256_BYTES))
    /\ FIELD_ORDER_STARK =
          wrapping_add(wrapping_add(Pow2(251), wrapping_mul(FromNat(17, U256_BYTES), Pow2(192))),
                       U256_ONE)
    /\ GfaConfig_default = FIELD_ORDER_25519
    /\ FQ \in { wrapping_sub(Pow2(255), FromNat(19, U256_BYTES)),
                wrapping_sub(wrapping_sub(U256_ZERO, Pow2(32)), FromNat(977, U256_BYTES)),
                wrapping_add(wrapping_add(Pow2(251),
                                          wrapping_mul(FromNat(17, U256_BYTES), Pow2(192))),
                             U256_ONE) }

\* C26: an instruction was executed on a register file built for
\* FIELD_ORDER_25519, whose FQ is 2^255 + 2^252 - 20, an even number.
OrderOf25519IsEven ==
    /\ Issued
    /\ config = FIELD_ORDER_25519
    /\ FQ = wrapping_sub(wrapping_add(Pow2(255), Pow2(252)), FromNat(20, U256_BYTES))
    /\ FQ[1] % 2 = 0

\* C28: add on a register holding q - 1 and one holding 1 stores 0, and add
\* on a register holding q - 1 and one holding x, 1 <= x < q, stores x - 1.
AddOfOrderLessOneIsPredecessor ==
    last.decoded.op = "Add" =>
        \A x \in {unwrap(pre.e[r]) : r \in {r \in RegE : is_some(pre.e[r])}} \ {U256_ZERO} :
            (\/ /\ pre.e[last.decoded.dst_src] = Some(wrapping_sub(FQ, U256_ONE))
                /\ pre.e[last.decoded.src] = Some(x)
             \/ /\ pre.e[last.decoded.dst_src] = Some(x)
                /\ pre.e[last.decoded.src] = Some(wrapping_sub(FQ, U256_ONE)))
            => /\ last.step = "Next"
               /\ E[last.decoded.dst_src] = Some(wrapping_sub(x, U256_ONE))

\* C28: on FIELD_ORDER_SECP, add on q - 1 in E2 and 2^128 - 1 in EF has left
\* 2^128 - 3 in E2, one less than x - 1.
AddOfOrderLessOneIsTwoLess ==
    /\ FQ = FIELD_ORDER_SECP
    /\ last.decoded = Add(E2, EF)
    /\ pre.e[E2] = Some(wrapping_sub(FQ, U256_ONE))
    /\ pre.e[EF] = Some(wrapping_sub(Pow2(128), U256_ONE))
    /\ last.step = "Next"
    /\ E[E2] = Some(wrapping_sub(Pow2(128), FromNat(3, U256_BYTES)))

\* C29: test, clr, putz, putv, putd, mov and eq advertise the base cost of
\* the instruction, and fits, neg, add and mul twice the base cost.
ComplexityIsBaseOrTwice ==
    Issued =>
        /\ base_complexity(last.decoded) > 0
        /\ last.decoded.op \in {"Test", "Clr", "PutZ", "PutV", "PutD", "Mov", "Eq"} =>
              complexity(last.decoded) = base_complexity(last.decoded)
        /\ last.decoded.op \in {"Fits", "Neg", "Add", "Mul"} =>
              complexity(last.decoded) = base_complexity(last.decoded) + base_complexity(last.decoded)

\* C29: a mul of two registers was executed; it advertises twice its base
\* cost, and the mov of the same registers its base cost.
MulCostsTwiceBase ==
    /\ last.decoded = Mul(E2, EF)
    /\ last.step = "Next"
    /\ complexity(last.decoded) = 2 * base_complexity(last.decoded)
    /\ complexity(last.decoded) # base_complexity(last.decoded)
    /\ complexity(Mov(E2, EF)) = base_complexity(Mov(E2, EF))

\* C31: an instruction leaves every slot outside its dst_regs as it was, and
\* test, eq and fits, whose dst_regs is empty, leave every slot as it was.
SlotsOutsideDstRegsKept ==
    Issued =>
        /\ \A r \in RegE \ dst_regs(last.decoded) : E[r] = pre.e[r]
        /\ last.decoded.op \in {"Test", "Eq", "Fits"} =>
              dst_regs(last.decoded) = {} /\ E = pre.e

\* C31: mov E2, EF has replaced what E2 held with what EF holds, and EF
\* holds what it held.
MovKeptItsSource ==
    /\ last.decoded = Mov(E2, EF)
    /\ is_some(pre.e[E2])
    /\ is_some(pre.e[EF])
    /\ pre.e[E2] # pre.e[EF]
    /\ E = [pre.e EXCEPT ![E2] = pre.e[EF]]

\* the core the last instruction found, with v in every slot outside S
CoreElsewhere(S, v) ==
    [cx |-> [fq |-> FQ, e |-> [r \in RegE |-> IF r \in S THEN pre.e[r] ELSE v],
             panic |-> FALSE],
     co |-> pre.co, ck |-> pre.ck]

\* the last instruction executed on that core instead
OnCoreElsewhere(v) == exec(last.decoded, CoreElsewhere(src_regs(last.decoded), v))

\* the values put in the slots outside the source registers
ElsewhereValues == {None, Some(U256_ONE), Some(wrapping_sub(FQ, U256_ONE))}

\* C32: the instruction executed last returns the same step, leaves the same
\* CO and the same contents in the slots of its dst_regs on any register
\* file of the same FQ that agrees with the one it found on its src_regs.
OutcomeDependsOnSrcRegsOnly ==
    Issued =>
        \A v \in ElsewhereValues :
            /\ OnCoreElsewhere(v).step = last.step
            /\ last.step # "Abort" =>
                  /\ OnCoreElsewhere(v).core.co = co
                  /\ \A d \in dst_regs(last.decoded) : OnCoreElsewhere(v).core.cx.e[d] = E[d]

\* C32, amended: on such a register file the instruction returns the same
\* step and leaves the same CO; when the step advances it leaves the same
\* contents in the slots of its dst_regs, and when the step fails it leaves
\* every slot of either register file as it was.
OutcomeOfSuccessDependsOnSrcRegsOnly ==
    Issued =>
        \A v \in ElsewhereValues :
            /\ OnCoreElsewhere(v).step = last.step
            /\ last.step # "Abort" => OnCoreElsewhere(v).core.co = co
            /\ last.step = "Next" =>
                  \A d \in dst_regs(last.decoded) : OnCoreElsewhere(v).core.cx.e[d] = E[d]
            /\ last.step = "Fail" =>
                  /\ E = pre.e
                  /\ OnCoreElsewhere(v).core.cx.e
                        = CoreElsewhere(src_regs(last.decoded), v).cx.e

\* C32: neg E2, EF has failed on the empty EF and left in E2 the value it
\* held; E2 is no source register of it.
NegOnEmptyKeptOtherValue ==
    /\ last.decoded = Neg(E2, EF)
    /\ last.step = "Fail"
    /\ ~is_some(pre.e[EF])
    /\ is_some(pre.e[E2])
    /\ E[E2] = pre.e[E2]

\* an instruction of the SET class with the discriminator sub, on EF
SetUnit(sub) == write_fixed(write_byte(write_byte(Marshaller, SET), 16 * EF + sub), U256_ONE)

\* the arms of the SET class whose pattern the discriminator sub matches
SetArms(sub) ==
    {arm \in {"Test", "Clr", "PutD", "PutZ", "PutV", "Fits"} :
        \/ arm = "Test" /\ sub = SUB_TEST
        \/ arm = "Clr" /\ sub = SUB_CLR
        \/ arm = "PutD" /\ sub = SUB_PUTD
        \/ arm = "PutZ" /\ sub = SUB_PUTZ
        \/ arm = "PutV" /\ BitAnd(sub, MASK_PUTV) = TEST_PUTV
        \/ arm = "Fits" /\ BitAnd(sub, MASK_FITS) = TEST_FITS}

\* C33: each of the sixteen discriminators of the SET class matches one arm
\* of the decoder and is decoded to that instruction, and no opcode in
\* 0x40..=0x45 is decoded to an unreachable arm, whatever its operand byte;
\* every instruction of the program with such an opcode is decoded and
\* executed as a field instruction.
SetDecodingIsTotal ==
    /\ n = 0 =>
          \A sub \in 0..15 :
              /\ Cardinality(SetArms(sub)) = 1
              /\ decode_operands(SetUnit(sub), 3, SET).op \in SetArms(sub)
              /\ \A opcode \in op_range :
                    decode_operands(SetUnit(sub), 3, opcode).op \in FieldOps
    /\ n < Len(program) /\ OpcodeOf(program[n + 1]) \in op_range =>
          /\ Fetch.op \in FieldOps
          /\ Fetch = decode_operands(program[n + 1], 3, OpcodeOf(program[n + 1]))
    /\ Stepped /\ OpcodeOf(last.instr.unit) = SET =>
          last.decoded.op \in SetArms(last.instr.unit.code[3])

\* C33: the SET instruction with the discriminator 0b1111 was decoded as a
\* fits of EF and executed; it failed on the empty EF.
Discriminator15DecodedFits ==
    /\ Stepped
    /\ last.instr.unit = SetUnit(15)
    /\ last.decoded.op = "Fits"
    /\ last.decoded.src = EF
    /\ last.step = "Fail"

\* C34: every slot holds a value below FQ, and the executor aborts on a putd
\* with an immediate that is not below FQ only: a program whose putd
\* immediates are below FQ never aborts it.
NoAbortWithImmediatesBelowOrder ==
    /\ \A r \in RegE : is_some(E[r]) => Lt(unwrap(E[r]), FQ)
    /\ aborted => last.decoded.op = "PutD" /\ ~Lt(last.decoded.data, FQ)

\* C34: the program putz EF; neg E2, EF has aborted the executor at the neg,
\* with 0 in EF and E2 empty.
NegAfterPutZAbortedProgram ==
    /\ program = <<Instr_encode_instr(PutZ(EF)), Instr_encode_instr(Neg(E2, EF))>>
    /\ n = 2
    /\ last.decoded = Neg(E2, EF)
    /\ aborted
    /\ E[EF] = Some(U256_ZERO)
    /\ E[E2] = None

\* the instruction executed last names the register r twice, and r held a
SameRegister(op, r, a) ==
    /\ last.decoded.op = op
    /\ src_regs(last.decoded) = {r}
    /\ dst_regs(last.decoded) \in {{}, {r}}
    /\ pre.e[r] = a

\* C35: on a register r named twice and holding a, add stores (2a) mod q,
\* mul stores (a * a) mod q, neg stores (q - a) mod q and mov leaves r as it
\* was; eq on r named twice sets CO to Ok if r holds a value and to Fail if
\* it is empty.
SameRegisterOperands ==
    \A r \in ProgRegs :
        /\ is_some(pre.e[r]) =>
            /\ SameRegister("Add", r, pre.e[r]) =>
                  /\ last.step = "Next"
                  /\ E = [pre.e EXCEPT ![r] =
                            Some(SumModOrder(unwrap(pre.e[r]), unwrap(pre.e[r]), FQ))]
            /\ SameRegister("Mul", r, pre.e[r]) =>
                  /\ last.step = "Next"
                  /\ E = [pre.e EXCEPT ![r] =
                            Some(ProductModOrder(unwrap(pre.e[r]), unwrap(pre.e[r]), FQ))]
            /\ SameRegister("Neg", r, pre.e[r]) =>
                  /\ last.step = "Next"
                  /\ E = [pre.e EXCEPT ![r] = Some(NegationModOrder(unwrap(pre.e[r]), FQ))]
        /\ SameRegister("Mov", r, pre.e[r]) => last.step = "Next" /\ E = pre.e
        /\ SameRegister("Eq", r, pre.e[r]) =>
              /\ last.step = "Next"
              /\ E = pre.e
              /\ co = (IF is_some(pre.e[r]) THEN "Ok" ELSE "Fail")

\* C35: neg E2, E2 on E2 holding 0 has aborted the executor and left 0 in E2.
NegOfZeroInPlaceAborted ==
    /\ last.decoded = Neg(E2, E2)
    /\ pre.e[E2] = Some(U256_ZERO)
    /\ last.step = "Abort"
    /\ aborted
    /\ E = pre.e

\* the host on instr where the last instruction has left the core
Then(instr) == run(instr, assemble, Core)

\* C36: neg t, r on r holding a leaves (q - a) mod q in t, a in r and CK as
\* it was; add r, t after it leaves 0 in r, t as it is and CK as it was; and
\* neg r, r after neg r, r leaves in r the a it held before the two.
NegIsAdditiveInverse ==
    (/\ last.decoded.op = "Neg"
     /\ is_some(pre.e[last.decoded.src]))
    => /\ last.step = "Next"
       /\ ck = pre.ck
       /\ E = [pre.e EXCEPT ![last.decoded.dst] =
                  Some(NegationModOrder(unwrap(pre.e[last.decoded.src]), FQ))]
       /\ last.decoded.dst # last.decoded.src =>
             /\ Then(Add(last.decoded.src, last.decoded.dst)).step = "Next"
             /\ Then(Add(last.decoded.src, last.decoded.dst)).core.ck = pre.ck
             /\ Then(Add(last.decoded.src, last.decoded.dst)).core.cx.e
                   = [E EXCEPT ![last.decoded.src] = Some(U256_ZERO)]
       /\ last.decoded.dst = last.decoded.src =>
             /\ Then(last.decoded).step = "Next"
             /\ Then(last.decoded).core.cx.e = pre.e

\* C36: neg E2, EF on EF holding 0, with a value in E2, has aborted the
\* executor: E2 holds what it held and not the negation of EF.
NegOfZeroLeftOtherValue ==
    /\ last.decoded = Neg(E2, EF)
    /\ pre.e[EF] = Some(U256_ZERO)
    /\ is_some(pre.e[E2])
    /\ pre.e[E2] # Some(U256_ZERO)
    /\ aborted
    /\ E = pre.e

====
